---- MODULE Spec2Model ----
(***************************************************************************)
(* Monthly price store and fetch-and-store orchestrator of the research   *)
(* package: research/functions/download_helper.py and                     *)
(* research/functions/fetch_and_store.py, with the provider wrapper of     *)
(* research/functions/data_source.py.                                      *)
(*                                                                         *)
(* Dates are day ordinals; a month has DaysPerMonth days and a year has    *)
(* MonthsPerYear months, so (year, month) of a day is computed, never      *)
(* stored.  A pandas datetime64 value is a tick count (TicksPerDay ticks   *)
(* per day); a datetime.date value is a day ordinal.  A CSV date cell is   *)
(* the tick count of what was written (a date is written as its midnight). *)
(***************************************************************************)
EXTENDS Integers, Sequences, FiniteSets, TLC

\* ---------------------------------------------------------------- bounds
DaysPerMonth == 3
TicksPerDay == 2
MaxRows == 2
\* gap dates: the longest list, the latest day, the largest max_gap_days
MaxGapDates == 3
MaxGapDay == 4
MaxGap == 2

\* ------------------------------------------------------ program constants
MonthsPerYear == 12
\* seconds: the cap of the adaptive delay, the cap of the retry backoff
DelayCap == 5
BackoffCap == 10
\* the decay factor 0.8 of the adaptive delay, as DecayNum / DecayDen
DecayNum == 4
DecayDen == 5

\* ------------------------------------------------------------- universes
StoreTickers == {"X", "Y"}
RunTickers == {"X", "Y", "Z"}
Values == {1, 2}
TickerRank == [t \in RunTickers |-> CASE t = "X" -> 1 [] t = "Y" -> 2 [] OTHER -> 3]

\* first day of the last month of year 0 (so that the model crosses a year)
DecFirst == (MonthsPerYear - 1) * DaysPerMonth
JanFirst == MonthsPerYear * DaysPerMonth
FebFirst == (MonthsPerYear + 1) * DaysPerMonth
\* the days the store specification writes: the last day of December of
\* year 0 and the first two days of January of year 1
StoreDates == {JanFirst - 1, JanFirst, JanFirst + 1}

\* a path that does not exist, and a file holding the given CSV rows
NoFile == [exists |-> FALSE, cells |-> <<>>]
File(cells) == [exists |-> TRUE, cells |-> cells]

\* ---------------------------------------------------------------- calendar
MonthIndex(d) == d \div DaysPerMonth
YearOf(d) == MonthIndex(d) \div MonthsPerYear
MonthOf(d) == (MonthIndex(d) % MonthsPerYear) + 1
PartitionOf(d) == <<YearOf(d), MonthOf(d)>>

\* month_range(year, month): first and last day of the month
month_range(year, month) ==
    LET first == (year * MonthsPerYear + (month - 1)) * DaysPerMonth
    IN  <<first, first + DaysPerMonth - 1>>

\* the partition files get_month_path can name in this model
Partitions == {<<0, MonthsPerYear>>, <<1, 1>>, <<1, 2>>}

\* ------------------------------------------------------------- data frames
\* A frame is [dtype, rows]: dtype is the dtype of its date column.
Frame(dtype, rows) == [dtype |-> dtype, rows |-> rows]
EmptyFrame == Frame("object", <<>>)
IsEmpty(df) == Len(df.rows) = 0
Key(r) == <<r.date, r.ticker>>
KeysOf(rows) == {Key(rows[i]) : i \in 1..Len(rows)}
KeyLess(a, b) ==
    \/ a.date < b.date
    \/ a.date = b.date /\ TickerRank[a.ticker] < TickerRank[b.ticker]

\* the subsequence of s at the indices in idx, in order
RECURSIVE PickRows(_, _, _)
PickRows(s, idx, i) ==
    IF i > Len(s) THEN <<>>
    ELSE IF i \in idx THEN <<s[i]>> \o PickRows(s, idx, i + 1)
    ELSE PickRows(s, idx, i + 1)

\* normalize_dates: a datetime64 date column becomes a column of dates
normalize_dates(df) ==
    IF df.dtype = "datetime64"
    THEN Frame("object",
               [i \in 1..Len(df.rows) |->
                   [df.rows[i] EXCEPT !.date = df.rows[i].date \div TicksPerDay]])
    ELSE df

\* pd.concat([a, b], ignore_index=True) of two normalized frames
Concat(a, b) == Frame("object", a.rows \o b.rows)

\* DataFrame.drop_duplicates(subset=["date", "ticker"]): pandas' default
\* keep="first" keeps, for each key, the first row in frame order
drop_duplicates(rows) ==
    PickRows(rows,
             {i \in 1..Len(rows) : \A j \in 1..(i - 1) : Key(rows[j]) # Key(rows[i])},
             1)

\* DataFrame.sort_values(["date", "ticker"]): ascending, ties in frame order
\* (rows are inserted one by one, each after the rows not greater than it)
RECURSIVE SortInto(_, _, _)
SortInto(rows, i, acc) ==
    IF i > Len(rows) THEN acc
    ELSE LET k == Cardinality({j \in 1..Len(acc) : ~KeyLess(rows[i], acc[j])})
         IN  SortInto(rows, i + 1,
                      SubSeq(acc, 1, k) \o <<rows[i]>> \o SubSeq(acc, k + 1, Len(acc)))
sort_values(rows) == SortInto(rows, 1, <<>>)

\* DataFrame.to_csv(path, index=False): a date is written as its ISO day,
\* a datetime64 value as its timestamp
to_csv(df) ==
    IF df.dtype = "datetime64" THEN df.rows
    ELSE [i \in 1..Len(df.rows) |->
             [df.rows[i] EXCEPT !.date = df.rows[i].date * TicksPerDay]]

\* pd.read_csv(path, parse_dates=["date"]): the date column is datetime64
read_csv(file) == Frame("datetime64", file.cells)

\* load_existing(path)
load_existing(file) == normalize_dates(read_csv(file))

\* save_price_data(df, path): the content written to path
NoSort_save_price_data(df) == File(to_csv(Frame(df.dtype, drop_duplicates(df.rows))))
NoDedupe_save_price_data(df) == File(to_csv(Frame(df.dtype, sort_values(df.rows))))
save_price_data(df) ==
    File(to_csv(Frame(df.dtype, sort_values(drop_duplicates(df.rows)))))

\* merge_ticker_data_into_monthly_files(data_dir, df): the store afterwards.
\* Rows are grouped by the (year, month) of their own date, in frame order.
MergeByFirstRow_merge_ticker_data_into_monthly_files(store, df) ==
    IF IsEmpty(df) THEN store
    ELSE LET ndf == normalize_dates(df)
             first == PartitionOf(ndf.rows[1].date)
         IN  [store EXCEPT ![first] =
                save_price_data(
                    IF store[first].exists
                    THEN Concat(load_existing(store[first]), ndf)
                    ELSE ndf)]
merge_ticker_data_into_monthly_files(store, df) ==
    IF IsEmpty(df) THEN store
    ELSE LET ndf == normalize_dates(df)
             grp(p) == SelectSeq(ndf.rows, LAMBDA r : PartitionOf(r.date) = p)
         IN  [p \in Partitions |->
                IF grp(p) = <<>> THEN store[p]
                ELSE save_price_data(
                        IF store[p].exists
                        THEN Concat(load_existing(store[p]), Frame("object", grp(p)))
                        ELSE Frame("object", grp(p)))]

\* ------------------------------------------------- inputs of the store API
StoreRows == [date : StoreDates, ticker : StoreTickers, val : Values]
RowSeqs == UNION {[1..k -> StoreRows] : k \in 0..MaxRows}
\* a frame of dates stamped at time-of-day tod, as a datetime64 column
AsDatetime(rows, tod) ==
    Frame("datetime64",
          [i \in 1..Len(rows) |->
              [rows[i] EXCEPT !.date = rows[i].date * TicksPerDay + tod]])
\* The long format fetch_prices builds from the provider's table: one block of
\* rows per ticker, in ticker order, each block in date order, at midnight.
LongFormat(rowset, tod) ==
    LET n == Cardinality(rowset)
        before(a, b) ==
            \/ TickerRank[a.ticker] < TickerRank[b.ticker]
            \/ a.ticker = b.ticker /\ a.date < b.date
        at(k) == CHOOSE r \in rowset :
                    Cardinality({q \in rowset : before(q, r)}) = k - 1
    IN  IF n = 0 THEN EmptyFrame
        ELSE AsDatetime([k \in 1..n |-> at(k)], tod)
\* the tables a provider may hold for the tickers over [start, end]: for every
\* (ticker, day) of the range either no bar or one bar
ProviderTables(tickers, days) ==
    {{[date |-> k[1], ticker |-> k[2], val |-> f[k]] : k \in {x \in DOMAIN f : f[x] # 0}} :
        f \in [days \X tickers -> Values \cup {0}]}
\* what a provider callable may return for [start, end]: rows inside the range
ProviderFrames(start, end) ==
    {LongFormat(t, 0) : t \in ProviderTables(StoreTickers, StoreDates \cap start..end)}
\* the frames merge_ticker_data_into_monthly_files is called with: any rows
\* with dates, in any order, or one month's provider table stamped late in the day
InputFrames ==
    {Frame("object", s) : s \in RowSeqs}
    \cup {LongFormat(t, TicksPerDay - 1) :
            t \in UNION {ProviderTables(StoreTickers,
                                        StoreDates \cap month_range(p[1], p[2])[1]
                                                        ..month_range(p[1], p[2])[2]) :
                         p \in Partitions}}
MaxDate(rows) == CHOOSE d \in {rows[i].date : i \in 1..Len(rows)} :
                    \A i \in 1..Len(rows) : rows[i].date <= d

\* ------------------------------------------------------- fetch_and_store
\* delays are exact rationals of seconds, [n, d] in lowest terms
RECURSIVE GCD(_, _)
GCD(a, b) == IF b = 0 THEN a ELSE GCD(b, a % b)
Q(n, d) == [n |-> n \div GCD(n, d), d |-> d \div GCD(n, d)]
QLeq(a, b) == a.n * b.d <= b.n * a.d
QMin(a, b) == IF QLeq(a, b) THEN a ELSE b
QMax(a, b) == IF QLeq(b, a) THEN a ELSE b
QTimes(a, n, d) == Q(a.n * n, a.d * d)

\* delay = min(delay * 2, 5.0) after a failed batch
Uncapped_AfterFailedBatch(delay) == QTimes(delay, 2, 1)
AfterFailedBatch(delay) == QMin(QTimes(delay, 2, 1), Q(DelayCap, 1))
\* delay = max(base_delay, delay * 0.8) after a successful batch
AfterSuccessfulBatch(base_delay, delay) ==
    QMax(base_delay, QTimes(delay, DecayNum, DecayDen))
\* backoff = min(backoff * 2, 10.0) after a failed attempt
NextBackoff(backoff) == QMin(QTimes(backoff, 2, 1), Q(BackoffCap, 1))

\* the half-open windows [start, end) the runs ask for
January == <<JanFirst, FebFirst>>
Straddle == <<JanFirst - 1, JanFirst + 2>>

\* a value of the ticker_ranges dict: one (start, end) tuple or a list of them
One(r) == <<"tuple", r>>
List(rs) == <<"list", rs>>
\* normalized[ticker]: a list either way
NormalizedRanges(v) == IF v[1] = "list" THEN v[2] ELSE <<v[2]>>

\* the (ticker, range) pairs in the order the two loops visit them
RECURSIVE Pairs(_, _)
Pairs(ticker_ranges, i) ==
    IF i > Len(ticker_ranges) THEN <<>>
    ELSE LET rs == NormalizedRanges(ticker_ranges[i].ranges)
         IN  [k \in 1..Len(rs) |-> <<ticker_ranges[i].ticker, rs[k]>>]
             \o Pairs(ticker_ranges, i + 1)

\* range_groups: range -> tickers, ranges in the order they first occur
\* (a dict keeps insertion order), tickers in the order they were appended
RangeGroups(ticker_ranges) ==
    LET ps == Pairs(ticker_ranges, 1)
        firsts == PickRows(ps,
                           {i \in 1..Len(ps) : \A j \in 1..(i - 1) : ps[j][2] # ps[i][2]},
                           1)
    IN  [g \in 1..Len(firsts) |->
            [range |-> firsts[g][2],
             tickers |-> LET mine == SelectSeq(ps, LAMBDA x : x[2] = firsts[g][2])
                         IN  [k \in 1..Len(mine) |-> mine[k][1]]]]

\* batch = group_tickers[i : i + batch_size], i counted from 1 here
OneMore_BatchAt(group_tickers, i, batch_size) ==
    SubSeq(group_tickers, i,
           IF i + batch_size < Len(group_tickers)
           THEN i + batch_size ELSE Len(group_tickers))
BatchAt(group_tickers, i, batch_size) ==
    SubSeq(group_tickers, i,
           IF i + batch_size - 1 < Len(group_tickers)
           THEN i + batch_size - 1 ELSE Len(group_tickers))
SeqSet(s) == {s[i] : i \in 1..Len(s)}

\* What the provider does on one call for tickers over [start, end): it
\* fails at transport level, or answers with a table of daily bars: for some
\* of the tickers, on every day of the window or on every day but the first.
ProviderOutcomes(tickers, start, end) ==
    {[kind |-> "raise", bars |-> {}]}
    \cup {[kind |-> "data",
           bars |-> {[date |-> d, ticker |-> t, val |-> v] : d \in days, t \in who}] :
            who \in SUBSET SeqSet(tickers),
            days \in {start..(end - 1), (start + 1)..(end - 1)},
            v \in Values}

\* a call that ends with an exception instead of a frame
Raised == [dtype |-> "exception", rows |-> <<>>]

\* fetch_prices(tickers, start_date, end_date) of functions/data_source.py:
\* an exception of yf.download is caught and an empty frame returned; a table
\* is turned into the long format
Uncaught_fetch_prices(tickers, outcome) ==
    IF Len(tickers) = 0 THEN EmptyFrame
    ELSE IF outcome.kind = "raise" THEN Raised
    ELSE LongFormat(outcome.bars, 0)
fetch_prices(tickers, outcome) ==
    IF Len(tickers) = 0 THEN EmptyFrame
    ELSE IF outcome.kind = "raise" THEN EmptyFrame
    ELSE LongFormat(outcome.bars, 0)

\* ticker_df of one ticker of the batch (lines 97-107): its rows of df, cut
\* down to the keep-set when filter_dates names the ticker
Unfiltered_TickerFrame(df, ticker, filter_dates) ==
    Frame(df.dtype, SelectSeq(df.rows, LAMBDA r : r.ticker = ticker))
TickerFrame(df, ticker, filter_dates) ==
    LET ticker_df == Frame(df.dtype, SelectSeq(df.rows, LAMBDA r : r.ticker = ticker))
    IN  IF IsEmpty(ticker_df) THEN ticker_df
        ELSE IF DOMAIN filter_dates # {} /\ ticker \in DOMAIN filter_dates
        THEN LET n == normalize_dates(ticker_df)
             IN  Frame("object", SelectSeq(n.rows, LAMBDA r : r.date \in filter_dates[ticker]))
        ELSE ticker_df

\* the loop over the batch (lines 96-111): acc is [store, ticker_rows]
RECURSIVE StoreBatch(_, _, _, _, _)
StoreBatch(acc, df, batch, filter_dates, i) ==
    IF i > Len(batch) THEN acc
    ELSE LET ticker_df == TickerFrame(df, batch[i], filter_dates)
         IN  IF IsEmpty(ticker_df)
             THEN StoreBatch(acc, df, batch, filter_dates, i + 1)
             ELSE StoreBatch(
                    [store |-> merge_ticker_data_into_monthly_files(acc.store, ticker_df),
                     ticker_rows |-> [acc.ticker_rows EXCEPT
                                        ![batch[i]] = acc.ticker_rows[batch[i]]
                                                      + Len(ticker_df.rows)]],
                    df, batch, filter_dates, i + 1)

\* the tally (lines 117-125): FetchResult(stored, failed)
AllStored_TallyResult(all_tickers, ticker_rows) ==
    [stored |-> [t \in all_tickers |-> ticker_rows[t]], failed |-> {}]
TallyResult(all_tickers, ticker_rows) ==
    [stored |-> [t \in {x \in all_tickers : ticker_rows[x] > 0} |-> ticker_rows[t]],
     failed |-> {t \in all_tickers : ~(ticker_rows[t] > 0)}]

\* the calls of fetch_and_store the model makes
NoFilter == [t \in {} |-> {}]
Requests ==
    { [ticker_ranges |-> <<[ticker |-> "X", ranges |-> One(January)]>>,
       filter_dates |-> NoFilter],
      [ticker_ranges |-> <<[ticker |-> "X", ranges |-> One(Straddle)],
                           [ticker |-> "Y", ranges |-> One(Straddle)],
                           [ticker |-> "Z", ranges |-> One(Straddle)]>>,
       filter_dates |-> NoFilter],
      [ticker_ranges |-> <<[ticker |-> "X", ranges |-> List(<<Straddle, January>>)],
                           [ticker |-> "Y", ranges |-> One(January)]>>,
       filter_dates |-> [t \in {"X"} |-> {JanFirst, JanFirst + 1}]],
      [ticker_ranges |-> <<[ticker |-> "X", ranges |-> One(January)],
                           [ticker |-> "Y", ranges |-> One(January)]>>,
       filter_dates |-> [t \in {"X"} |-> {JanFirst}]] }
Settings ==
    { [batch_size |-> 20, base_delay |-> Q(3, 10), max_retries |-> 3],
      [batch_size |-> 1, base_delay |-> Q(2, 1), max_retries |-> 1],
      [batch_size |-> 2, base_delay |-> Q(6, 1), max_retries |-> 2],
      [batch_size |-> 3, base_delay |-> Q(12, 1), max_retries |-> 3] }
Configs ==
    {[ticker_ranges |-> r.ticker_ranges, filter_dates |-> r.filter_dates,
      batch_size |-> c.batch_size, base_delay |-> c.base_delay,
      max_retries |-> c.max_retries] : r \in Requests, c \in Settings}
NoConfig ==
    [ticker_ranges |-> <<>>, filter_dates |-> NoFilter,
     batch_size |-> 1, base_delay |-> Q(0, 1), max_retries |-> 0]
\* the stores a run starts on: the empty one, and one that holds X's bar of
\* the second day of January with the value 2
RunStores ==
    {[p \in Partitions |-> NoFile],
     merge_ticker_data_into_monthly_files(
        [p \in Partitions |-> NoFile],
        Frame("object", <<[date |-> JanFirst + 1, ticker |-> "X", val |-> 2]>>))}

\* the frames the write-level specification merges: one provider table over
\* the last day of a year and the first day of the next
WriteFrames ==
    {LongFormat(t, 0) : t \in ProviderTables(StoreTickers, {JanFirst - 1, JanFirst})}
    \ {EmptyFrame}

\* the partitions a frame's rows belong to, in groupby order (ascending)
GroupsOf(rows) == {PartitionOf(rows[i].date) : i \in 1..Len(rows)}
PartLess(p, q) == p[1] < q[1] \/ (p[1] = q[1] /\ p[2] < q[2])
FirstGroup(rows) == CHOOSE p \in GroupsOf(rows) : \A q \in GroupsOf(rows) : ~PartLess(q, p)

VARIABLES
    disk,       \* partition (year, month) -> the file at its path
    reset,      \* the last operation was the forced full reset
    stage,      \* "empty", "seed" (a first frame merged), then "once" and "twice"
    incoming,   \* the frame merged at stages "once" and "twice"
    before,     \* the store before that frame was first merged
    once,       \* the store after it was merged once
    wr,         \* the write of save_price_data in progress, row by row
    cfg,        \* the arguments of the fetch_and_store call
    pc,         \* "idle", "fetch", "process", "tally", "done" or "raised"
    gi,         \* index of the range group the outer loop is at
    bi,         \* index i of the batch loop (from 1)
    attempt,    \* attempt of _fetch_batch_with_retry
    backoff,    \* backoff of _fetch_batch_with_retry
    delay,      \* the adaptive delay
    batch_df,   \* what _fetch_batch_with_retry returned for the batch
    ticker_rows, \* ticker -> rows counted (0: no entry)
    result,     \* the FetchResult returned
    written,    \* ticker -> rows the run handed to the store
    handed,     \* the (date, ticker) keys the run handed to the store
    served,     \* tickers of batches the provider answered
    nb,         \* batches gone through
    failStreak, \* failed batches in a row, up to now
    mode,       \* "single" run, or "first" run recorded and "second" run replayed
    script,     \* the provider's outcomes of the first run, call by call
    k,          \* the next call of the run, as an index of script
    snap,       \* the store as the first run left it
    sleeps,     \* the backoffs _fetch_batch_with_retry slept for the batch
    sent,       \* the batches gone through, each with the range fetched
    fetched,    \* ticker -> rows the provider's answers held, before filtering
    out,        \* the call a reader made last and what it returned
    damaged,    \* the partitions whose file no longer parses
    gap_dates,  \* dates argument of split_into_contiguous_ranges
    max_gap_days, \* its max_gap_days argument
    gap_ranges, \* what it returned (a one-element sequence), <<>> before
    calls,      \* fetch_prices calls the run has made
    last_event, \* "call" or "sleep": what the run did last, "none" at entry
    merging,    \* run -> the merge of one group it is in: [st, add, existing]
    clog        \* the loads and saves of the concurrent merges, in order

storeVars == <<disk, reset>>
mergeVars == <<stage, incoming, before, once>>
writeVars == <<wr>>
loopVars == <<pc, gi, bi, attempt, backoff, delay, batch_df, ticker_rows, result>>
ghostVars == <<written, handed, served, nb, failStreak, sleeps, sent, fetched, calls, last_event>>
replayVars == <<mode, script, k, snap>>
runVars == <<cfg, loopVars, ghostVars, replayVars>>
readVars == <<out, damaged>>
gapVars == <<gap_dates, max_gap_days, gap_ranges>>
concVars == <<merging, clog>>
vars == <<storeVars, mergeVars, writeVars, runVars, readVars, gapVars, concVars>>

EmptyStore == [p \in Partitions |-> NoFile]
Idle == [st |-> "idle", p |-> <<0, 0>>, full |-> <<>>, prior |-> NoFile, n |-> 0, rest |-> <<>>]

NoResult == [stored |-> [t \in {} |-> 0], failed |-> {}]
NoRows == [t \in RunTickers |-> 0]

\* no reader has called, no file is damaged
NoOut == [op |-> "none", args |-> <<>>, value |-> <<>>, had |-> 0, raised |-> FALSE]
NoRead == out = NoOut /\ damaged = {}
\* split_into_contiguous_ranges is not called
NoGaps == gap_dates = <<>> /\ max_gap_days = 0 /\ gap_ranges = <<>>
\* no two runs are merging side by side
Runs == {"A", "B"}
IdleMerge == [st |-> "idle", add |-> EmptyFrame, existing |-> <<>>]
NoConc == merging = [r \in Runs |-> IdleMerge] /\ clog = <<>>

\* no fetch_and_store call is under way
NoRun ==
    /\ cfg = NoConfig
    /\ pc = "idle"
    /\ gi = 1 /\ bi = 1 /\ attempt = 1
    /\ backoff = Q(0, 1) /\ delay = Q(0, 1)
    /\ batch_df = EmptyFrame
    /\ ticker_rows = NoRows
    /\ result = NoResult
    /\ written = NoRows /\ handed = {} /\ served = {} /\ nb = 0 /\ failStreak = 0
    /\ sleeps = <<>> /\ sent = <<>> /\ fetched = NoRows
    /\ calls = 0 /\ last_event = "none"
    /\ mode = "single" /\ script = <<>> /\ k = 1 /\ snap = EmptyStore

InitStore ==
    /\ disk = EmptyStore
    /\ reset = FALSE
    /\ stage = "empty"
    /\ incoming = EmptyFrame
    /\ before = EmptyStore
    /\ once = EmptyStore
    /\ wr = Idle
    /\ NoRun
    /\ NoRead
    /\ NoGaps
    /\ NoConc

\* merge_ticker_data_into_monthly_files called with any frame
MergeTickerData ==
    /\ \E df \in InputFrames :
        disk' = merge_ticker_data_into_monthly_files(disk, df)
    /\ reset' = FALSE
    /\ UNCHANGED <<mergeVars, writeVars, runVars, readVars, gapVars, concVars>>

\* update_existing_file(path, end_cap, tickers, fetch_prices_fn, stats) on an
\* existing file; the provider callable answers for [last_date + 1, end_cap]
UpdateExistingFile ==
    /\ \E p \in Partitions :
        /\ disk[p].exists
        /\ \E end_cap \in month_range(p[1], p[2])[1]..month_range(p[1], p[2])[2] :
             LET existing == load_existing(disk[p])
                 fetch_start == MaxDate(existing.rows) + 1
             IN  IF fetch_start > end_cap
                 THEN disk' = disk
                 ELSE \E new_data \in ProviderFrames(fetch_start, end_cap) :
                        IF IsEmpty(new_data)
                        THEN disk' = disk
                        ELSE disk' = [disk EXCEPT ![p] =
                                save_price_data(Concat(existing, normalize_dates(new_data)))]
    /\ reset' = FALSE
    /\ UNCHANGED <<mergeVars, writeVars, runVars, readVars, gapVars, concVars>>

\* create_new_file(path, start, end, tickers, fetch_prices_fn, stats) for the
\* month of path; it does not look at what path holds
CreateNewFile ==
    /\ \E p \in Partitions :
        \E data \in ProviderFrames(month_range(p[1], p[2])[1], month_range(p[1], p[2])[2]) :
            IF IsEmpty(data)
            THEN disk' = disk
            ELSE disk' = [disk EXCEPT ![p] = save_price_data(normalize_dates(data))]
    /\ reset' = FALSE
    /\ UNCHANGED <<mergeVars, writeVars, runVars, readVars, gapVars, concVars>>

\* cleanup_existing_files(data_dir): every PRICES_*.csv is unlinked
Glob_cleanup_existing_files(store) == store
cleanup_existing_files(store) == [p \in Partitions |-> NoFile]

\* get_month_path(data_dir, year, month): data_dir/<year>/PRICES_<year>-M<mm>.csv,
\* as the parts that order two such paths: the year directory, the year of
\* the stem and the two digits of the month
get_month_path(year, month) == <<year, year, month \div 10, month % 10>>
\* a < b for two paths, part by part from the left
PathLess(a, b) ==
    \E i \in 1..Len(a) : a[i] < b[i] /\ \A j \in 1..(i - 1) : a[j] = b[j]

\* find_last_month_with_data(data_dir): the first day of the month named by
\* the first of the paths sorted in reverse; <<>> stands for None
Oldest_find_last_month_with_data(store) ==
    LET files == {get_month_path(p[1], p[2]) : p \in {q \in Partitions : store[q].exists}}
    IN  IF files = {} THEN <<>>
        ELSE LET first == CHOOSE f \in files : \A g \in files : ~PathLess(g, f)
                 year == first[2]
                 month == first[3] * 10 + first[4]
             IN  <<month_range(year, month)[1]>>
find_last_month_with_data(store) ==
    LET files == {get_month_path(p[1], p[2]) : p \in {q \in Partitions : store[q].exists}}
    IN  IF files = {} THEN <<>>
        ELSE LET first == CHOOSE f \in files : \A g \in files : ~PathLess(f, g)
                 year == first[2]
                 month == first[3] * 10 + first[4]
             IN  <<month_range(year, month)[1]>>

\* determine_start_date(data_dir, start_date, force_redownload): the store
\* afterwards and the pair returned
Unflagged_determine_start_date(store, start_date, force_redownload) ==
    [store |-> cleanup_existing_files(store), value |-> <<start_date, <<>>>>]
determine_start_date(store, start_date, force_redownload) ==
    IF force_redownload
    THEN [store |-> cleanup_existing_files(store), value |-> <<start_date, <<>>>>]
    ELSE LET last == find_last_month_with_data(store)
         IN  [store |-> store,
              value |-> <<IF last # <<>> THEN last[1] ELSE start_date, last>>]

\* the start dates a caller configures
StartDates == {0, JanFirst + 1}

DetermineStartDate ==
    /\ \E start_date \in StartDates, force_redownload \in BOOLEAN :
        /\ disk' = determine_start_date(disk, start_date, force_redownload).store
        /\ reset' = force_redownload
    /\ UNCHANGED <<mergeVars, writeVars, runVars, readVars, gapVars, concVars>>

NextStore ==
    \/ MergeTickerData
    \/ UpdateExistingFile
    \/ CreateNewFile
    \/ DetermineStartDate

SpecStore == InitStore /\ [][NextStore]_vars

\* ------------------------------------------ one frame merged once, then again
\* a first merge into the empty store gives the partition its stored rows
SeedMerge ==
    /\ stage = "empty"
    /\ \E df \in InputFrames :
        disk' = merge_ticker_data_into_monthly_files(disk, df)
    /\ stage' = "seed"
    /\ UNCHANGED <<reset, incoming, before, once, writeVars, runVars, readVars, gapVars, concVars>>

\* merge_ticker_data_into_monthly_files(data_dir, df) for a frame df
MergeOnce ==
    /\ stage = "seed"
    /\ \E df \in InputFrames :
        /\ incoming' = df
        /\ disk' = merge_ticker_data_into_monthly_files(disk, df)
    /\ before' = disk
    /\ stage' = "once"
    /\ UNCHANGED <<reset, once, writeVars, runVars, readVars, gapVars, concVars>>

\* the same call once more
MergeAgain ==
    /\ stage = "once"
    /\ disk' = merge_ticker_data_into_monthly_files(disk, incoming)
    /\ once' = disk
    /\ stage' = "twice"
    /\ UNCHANGED <<reset, incoming, before, writeVars, runVars, readVars, gapVars, concVars>>

NextMerge ==
    \/ SeedMerge
    \/ MergeOnce
    \/ MergeAgain

SpecMerge == InitStore /\ [][NextMerge]_vars

\* ------------------------------------- save_price_data's write, step by step
\* merge_ticker_data_into_monthly_files reaches the next (year, month) group
\* of rows: it loads the group's file, builds the content and opens the path
\* for writing
OpenGroup(store, rows) ==
    LET p == FirstGroup(rows)
        grp == Frame("object", SelectSeq(rows, LAMBDA r : PartitionOf(r.date) = p))
    IN  [st |-> "writing",
         p |-> p,
         full |-> save_price_data(IF store[p].exists
                                  THEN Concat(load_existing(store[p]), grp)
                                  ELSE grp).cells,
         prior |-> store[p],
         n |-> 0,
         rest |-> SelectSeq(rows, LAMBDA r : PartitionOf(r.date) # p)]

\* out.to_csv(path, index=False) opens path itself for writing: the file is
\* truncated at once
BeginMerge ==
    /\ wr.st \in {"idle", "failed"}
    /\ \E df \in WriteFrames :
        LET w == OpenGroup(disk, normalize_dates(df).rows)
        IN  /\ wr' = w
            /\ disk' = [disk EXCEPT ![w.p] = File(<<>>)]
    /\ UNCHANGED <<reset, mergeVars, runVars, readVars, gapVars, concVars>>

\* to_csv writes the next row to the open file
WriteRow ==
    /\ wr.st = "writing"
    /\ wr.n < Len(wr.full)
    /\ disk' = [disk EXCEPT ![wr.p] = File(SubSeq(wr.full, 1, wr.n + 1))]
    /\ wr' = [wr EXCEPT !.n = wr.n + 1]
    /\ UNCHANGED <<reset, mergeVars, runVars, readVars, gapVars, concVars>>

\* to_csv returns; the loop of merge_ticker_data_into_monthly_files goes on
\* with the next group or ends
CloseFile ==
    /\ wr.st = "writing"
    /\ wr.n = Len(wr.full)
    /\ IF wr.rest = <<>>
       THEN /\ wr' = Idle
            /\ disk' = disk
       ELSE LET w == OpenGroup(disk, wr.rest)
            IN  /\ wr' = w
                /\ disk' = [disk EXCEPT ![w.p] = File(<<>>)]
    /\ UNCHANGED <<reset, mergeVars, runVars, readVars, gapVars, concVars>>

\* the write raises (OSError) or the process is stopped: nothing restores path
FailWrite ==
    /\ wr.st = "writing"
    /\ wr' = [wr EXCEPT !.st = "failed"]
    /\ UNCHANGED <<disk, reset, mergeVars, runVars, readVars, gapVars, concVars>>

NextWrite ==
    \/ BeginMerge
    \/ WriteRow
    \/ CloseFile
    \/ FailWrite

SpecWrite == InitStore /\ [][NextWrite]_vars

\* --------------------------------------------------- a fetch_and_store run
\* fetch_and_store(ticker_ranges, data_dir, ...) is entered: lines 68-84
Entered(c) ==
    /\ cfg = c
    /\ pc = "fetch"
    /\ gi = 1 /\ bi = 1 /\ attempt = 1
    /\ delay = c.base_delay
    /\ backoff = c.base_delay
    /\ batch_df = EmptyFrame
    /\ ticker_rows = NoRows
    /\ result = NoResult
    /\ written = NoRows /\ handed = {} /\ served = {} /\ nb = 0 /\ failStreak = 0
    /\ sleeps = <<>> /\ sent = <<>> /\ fetched = NoRows
    /\ calls = 0 /\ last_event = "none"

InitRun ==
    /\ disk \in RunStores
    /\ reset = FALSE
    /\ stage = "empty" /\ incoming = EmptyFrame
    /\ before = EmptyStore /\ once = EmptyStore
    /\ wr = Idle
    /\ \E c \in Configs : Entered(c)
    /\ NoRead
    /\ NoGaps
    /\ NoConc
    /\ mode = "single" /\ script = <<>> /\ k = 1 /\ snap = EmptyStore

CurGroup == RangeGroups(cfg.ticker_ranges)[gi]
CurBatch == BatchAt(CurGroup.tickers, bi, cfg.batch_size)
AllTickers == {cfg.ticker_ranges[i].ticker : i \in 1..Len(cfg.ticker_ranges)}

\* one turn of the loop of _fetch_batch_with_retry (lines 141-148), and its
\* return (line 144 or 149)
FetchAttempt ==
    /\ pc = "fetch"
    /\ mode = "second" => k <= Len(script)
    /\ \E o \in (IF mode = "second" THEN {script[k]}
                 ELSE ProviderOutcomes(CurBatch, CurGroup.range[1], CurGroup.range[2])) :
        LET r == fetch_prices(CurBatch, o)
        IN  /\ script' = IF mode = "first" THEN Append(script, o) ELSE script
            /\ k' = IF mode = "single" THEN k ELSE k + 1
            /\ IF r = Raised
               THEN /\ pc' = "raised"
                    /\ UNCHANGED <<attempt, backoff, batch_df, sleeps>>
               ELSE IF ~IsEmpty(r)
               THEN /\ pc' = "process"
                    /\ batch_df' = r
                    /\ UNCHANGED <<attempt, backoff, sleeps>>
               ELSE IF attempt < cfg.max_retries
               THEN /\ pc' = "fetch"
                    /\ attempt' = attempt + 1
                    /\ sleeps' = Append(sleeps, backoff)
                    /\ backoff' = NextBackoff(backoff)
                    /\ UNCHANGED batch_df
               ELSE /\ pc' = "process"
                    /\ batch_df' = EmptyFrame
                    /\ UNCHANGED <<attempt, backoff, sleeps>>
            /\ calls' = calls + 1
            /\ last_event' = IF ~(r = Raised) /\ IsEmpty(r) /\ attempt < cfg.max_retries
                             THEN "sleep" ELSE "call"
    /\ UNCHANGED <<readVars, gapVars, concVars, storeVars, mergeVars, writeVars, cfg, gi, bi, delay, ticker_rows,
                   result, written, handed, served, nb, failStreak, sent, fetched,
                   mode, snap>>

\* the body of the batch loop after the fetch (lines 92-115) and the step to
\* the next batch, the next range group or the tally
ProcessBatch ==
    /\ pc = "process"
    /\ IF IsEmpty(batch_df)
       THEN /\ delay' = AfterFailedBatch(delay)
            /\ failStreak' = failStreak + 1
            /\ UNCHANGED <<disk, ticker_rows, written, handed, served>>
       ELSE LET acc == StoreBatch([store |-> disk, ticker_rows |-> ticker_rows],
                                  batch_df, CurBatch, cfg.filter_dates, 1)
                given(t) == normalize_dates(TickerFrame(batch_df, t, cfg.filter_dates)).rows
            IN  /\ disk' = acc.store
                /\ ticker_rows' = acc.ticker_rows
                /\ delay' = AfterSuccessfulBatch(cfg.base_delay, delay)
                /\ failStreak' = 0
                /\ written' = [t \in RunTickers |->
                                 written[t]
                                 + Cardinality({i \in 1..Len(CurBatch) : CurBatch[i] = t})
                                   * Len(given(t))]
                /\ handed' = handed \cup UNION {KeysOf(given(t)) : t \in SeqSet(CurBatch)}
                /\ served' = served \cup SeqSet(CurBatch)
    /\ nb' = nb + 1
    /\ calls' = calls
    /\ last_event' = IF IsEmpty(batch_df) THEN last_event ELSE "sleep"
    /\ sleeps' = <<>>
    /\ sent' = Append(sent, [tickers |-> CurBatch, range |-> CurGroup.range])
    /\ fetched' = [t \in RunTickers |->
                     fetched[t] + Len(SelectSeq(batch_df.rows, LAMBDA r : r.ticker = t))]
    /\ IF bi + cfg.batch_size <= Len(CurGroup.tickers)
       THEN /\ bi' = bi + cfg.batch_size
            /\ gi' = gi
            /\ pc' = "fetch"
       ELSE IF gi < Len(RangeGroups(cfg.ticker_ranges))
       THEN /\ gi' = gi + 1
            /\ bi' = 1
            /\ pc' = "fetch"
       ELSE /\ pc' = "tally"
            /\ UNCHANGED <<gi, bi>>
    /\ attempt' = 1
    /\ backoff' = delay'
    /\ batch_df' = EmptyFrame
    /\ UNCHANGED <<readVars, gapVars, concVars, reset, mergeVars, writeVars, cfg, result, replayVars>>

\* the tally and the return (lines 117-127)
Tally ==
    /\ pc = "tally"
    /\ result' = TallyResult(AllTickers, ticker_rows)
    /\ pc' = "done"
    /\ UNCHANGED <<readVars, gapVars, concVars, storeVars, mergeVars, writeVars, cfg, gi, bi, attempt, backoff, delay,
                   batch_df, ticker_rows, ghostVars, replayVars>>

NextRun ==
    \/ FetchAttempt
    \/ ProcessBatch
    \/ Tally

SpecRun == InitRun /\ [][NextRun]_vars

\* the call runs on: the interpreter takes the next step of the function as
\* long as there is one. This is WF_vars(NextRun) written out, a step of a
\* single run being possible exactly at the positions of RunEnabled
RunEnabled == pc \in {"fetch", "process", "tally"}
SpecRunFair == SpecRun /\ ([]<>(~RunEnabled) \/ []<><<NextRun>>_vars)

\* ------------------------------------- the same call again, on the store left
InitRerun ==
    /\ disk \in RunStores
    /\ reset = FALSE
    /\ stage = "empty" /\ incoming = EmptyFrame
    /\ before = EmptyStore /\ once = EmptyStore
    /\ wr = Idle
    /\ \E c \in Configs : Entered(c)
    /\ NoRead
    /\ NoGaps
    /\ NoConc
    /\ mode = "first" /\ script = <<>> /\ k = 1 /\ snap = EmptyStore

\* fetch_and_store is called again with the same arguments; the provider will
\* answer call by call as it did
CallAgain ==
    /\ pc = "done"
    /\ mode = "first"
    /\ mode' = "second"
    /\ snap' = disk
    /\ k' = 1
    /\ cfg' = cfg
    /\ pc' = "fetch"
    /\ gi' = 1 /\ bi' = 1 /\ attempt' = 1
    /\ delay' = cfg.base_delay
    /\ backoff' = cfg.base_delay
    /\ batch_df' = EmptyFrame
    /\ ticker_rows' = NoRows
    /\ result' = NoResult
    /\ written' = NoRows /\ handed' = {} /\ served' = {} /\ nb' = 0 /\ failStreak' = 0
    /\ sleeps' = <<>> /\ sent' = <<>> /\ fetched' = NoRows
    /\ calls' = 0 /\ last_event' = "none"
    /\ UNCHANGED <<readVars, gapVars, concVars, storeVars, mergeVars, writeVars, script>>

NextRerun ==
    \/ FetchAttempt
    \/ ProcessBatch
    \/ Tally
    \/ CallAgain

SpecRerun == InitRerun /\ [][NextRerun]_vars

\* ------------------------------------------------- the store and its readers
\* A reader takes the result of one call at a time; the store is written
\* between two calls.
Unread == out = NoOut /\ damaged = {}

\* the partition files that exist, as the sequence sorted(rglob) gives
ExistingPaths(store) ==
    LET ps == {p \in Partitions : store[p].exists}
        at(n) == CHOOSE p \in ps :
                    Cardinality({q \in ps : PathLess(get_month_path(q[1], q[2]),
                                                      get_month_path(p[1], p[2]))}) = n - 1
    IN  [n \in 1..Cardinality(ps) |-> at(n)]

\* None and a value, for an optional argument or result
None == <<>>
Some(x) == <<x>>

\* the dates that stand for date(1900, 1, 1) and date(2100, 12, 31): the
\* first day of the calendar and the last day of the year after the data
LoDefault == 0
HiDefault == month_range(1, MonthsPerYear)[2]

\* _months_in_range(start, end), from (y, m) on
RECURSIVE MonthsFrom(_, _, _)
Strict_MonthsFrom(y, m, end) ==
    IF month_range(y, m)[1] < end
    THEN <<<<y, m>>>> \o (IF m < MonthsPerYear THEN MonthsFrom(y, m + 1, end)
                         ELSE MonthsFrom(y + 1, 1, end))
    ELSE <<>>
MonthsFrom(y, m, end) ==
    IF month_range(y, m)[1] <= end
    THEN <<<<y, m>>>> \o (IF m < MonthsPerYear THEN MonthsFrom(y, m + 1, end)
                         ELSE MonthsFrom(y + 1, 1, end))
    ELSE <<>>
months_in_range(start, end) == MonthsFrom(YearOf(start), MonthOf(start), end)

\* _read_csv(path) of load_data.py: None when path is no file, and None
\* when pd.read_csv raises
ReadCsvOrNone(store, bad, p) ==
    IF p \notin Partitions THEN None
    ELSE IF ~store[p].exists THEN None
    ELSE IF p \in bad THEN None
    ELSE Some(read_csv(store[p]))

\* the rows of the frames of parts, one after the other
RECURSIVE ConcatParts(_, _)
ConcatParts(parts, i) ==
    IF i > Len(parts) THEN <<>>
    ELSE parts[i].rows \o ConcatParts(parts, i + 1)

\* load_prices(tickers, start_date, end_date, data_dir): tickers is a list
\* (empty as None is), start_date and end_date are None or Some(date);
\* all columns are returned
load_prices(store, bad, tickers, start_date, end_date) ==
    LET start == IF start_date # None THEN start_date[1] ELSE LoDefault
        end == IF end_date # None THEN end_date[1] ELSE HiDefault
        files == IF start_date # None \/ end_date # None
                 THEN months_in_range(start, end)
                 ELSE ExistingPaths(store)
        read == [i \in 1..Len(files) |-> ReadCsvOrNone(store, bad, files[i])]
        parts == SelectSeq(read, LAMBDA df : df # None /\ ~IsEmpty(df[1]))
        all == ConcatParts([i \in 1..Len(parts) |-> parts[i][1]], 1)
        deduped == drop_duplicates(all)
        inside == SelectSeq(deduped, LAMBDA r : start <= r.date \div TicksPerDay
                                                /\ r.date \div TicksPerDay <= end)
        wanted == IF Len(tickers) > 0
                  THEN SelectSeq(inside, LAMBDA r : r.ticker \in SeqSet(tickers))
                  ELSE inside
    IN  IF Len(parts) = 0 THEN EmptyFrame
        ELSE Frame("datetime64", sort_values(wanted))

\* get_last_dates_per_ticker(data_dir, tickers): ticker -> None or the
\* latest date; a file pd.read_csv raises on is passed over (lines 188-193)
LatestFile_get_last_dates_per_ticker(store, bad, tickers) ==
    LET paths == ExistingPaths(store)
        dfs == SelectSeq(paths, LAMBDA p : p \notin bad)
        rows == IF Len(dfs) = 0 THEN <<>>
                ELSE normalize_dates(read_csv(store[dfs[Len(dfs)]])).rows
        seen(t) == {rows[i].date : i \in {j \in 1..Len(rows) : rows[j].ticker = t}}
    IN  [t \in SeqSet(tickers) |->
            IF seen(t) = {} THEN None
            ELSE Some(CHOOSE d \in seen(t) : \A x \in seen(t) : x <= d)]
get_last_dates_per_ticker(store, bad, tickers) ==
    LET paths == ExistingPaths(store)
        dfs == SelectSeq(paths, LAMBDA p : p \notin bad)
        kept(p) == SelectSeq(read_csv(store[p]).rows,
                             LAMBDA r : r.ticker \in SeqSet(tickers))
        combined == ConcatParts([i \in 1..Len(dfs) |-> Frame("datetime64", kept(dfs[i]))], 1)
        rows == normalize_dates(Frame("datetime64", combined)).rows
        seen(t) == {rows[i].date : i \in {j \in 1..Len(rows) : rows[j].ticker = t}}
    IN  IF Len(paths) = 0 \/ Len(dfs) = 0
        THEN [t \in SeqSet(tickers) |-> None]
        ELSE [t \in SeqSet(tickers) |->
                IF seen(t) = {} THEN None
                ELSE Some(CHOOSE d \in seen(t) : \A x \in seen(t) : x <= d)]

\* the dates a reader asks for, and the ticker lists
QueryDates == {JanFirst - 1, JanFirst + 1, FebFirst}
OptionalDates == {None} \cup {Some(d) : d \in QueryDates}
QueryTickers == {<<>>, <<"X">>}
LastDateTickers == {<<"X", "Y", "Z">>, <<"Y">>}

\* the rows written one at a time here: the last day of a year, the first
\* days of the two months after it
ReadDates == {JanFirst - 1, JanFirst, FebFirst}
ReadRows == [date : ReadDates, ticker : StoreTickers, val : Values]

\* merge_ticker_data_into_monthly_files with a frame of one row
StoreRow ==
    /\ Unread
    /\ \E row \in ReadRows :
        disk' = merge_ticker_data_into_monthly_files(disk, Frame("object", <<row>>))
    /\ reset' = FALSE
    /\ UNCHANGED <<mergeVars, writeVars, runVars, readVars, gapVars, concVars>>
StoreUpdate == Unread /\ UpdateExistingFile
StoreCreate == Unread /\ CreateNewFile

\* determine_start_date(data_dir, start_date, force_redownload), its return
\* value taken; had is the number of partition files before the call
ReadStartDate ==
    /\ Unread
    /\ \E start_date \in StartDates, force_redownload \in BOOLEAN :
        LET r == determine_start_date(disk, start_date, force_redownload)
        IN  /\ disk' = r.store
            /\ reset' = force_redownload
            /\ out' = [op |-> "determine_start_date",
                       args |-> <<start_date, force_redownload>>,
                       value |-> r.value,
                       had |-> Cardinality({p \in Partitions : disk[p].exists}),
                       raised |-> FALSE]
    /\ UNCHANGED <<damaged, mergeVars, writeVars, runVars, gapVars, concVars>>

\* get_last_dates_per_ticker(data_dir, tickers)
ReadLastDates ==
    /\ out = NoOut
    /\ \E tickers \in LastDateTickers :
        out' = [op |-> "get_last_dates_per_ticker",
                args |-> <<tickers>>,
                value |-> get_last_dates_per_ticker(disk, damaged, tickers),
                had |-> Cardinality({p \in Partitions : disk[p].exists}),
                raised |-> FALSE]
    /\ UNCHANGED <<damaged, storeVars, mergeVars, writeVars, runVars, gapVars, concVars>>

\* load_existing(path) on a path that exists: pd.read_csv raises on a file
\* that does not parse
LoadExisting ==
    /\ out = NoOut
    /\ \E p \in Partitions :
        /\ disk[p].exists
        /\ out' = [op |-> "load_existing",
                   args |-> <<p>>,
                   value |-> IF p \in damaged THEN Raised ELSE load_existing(disk[p]),
                   had |-> Cardinality({q \in Partitions : disk[q].exists}),
                   raised |-> p \in damaged]
    /\ UNCHANGED <<damaged, storeVars, mergeVars, writeVars, runVars, gapVars, concVars>>

\* the file of a partition is damaged behind the program's back (cut short,
\* overwritten): it exists and no longer parses
Damage ==
    /\ Unread
    /\ \E p \in Partitions :
        /\ disk[p].exists
        /\ damaged' = {p}
    /\ UNCHANGED <<out, storeVars, mergeVars, writeVars, runVars, gapVars, concVars>>

\* load_prices(tickers, start_date, end_date, data_dir)
LoadPrices ==
    /\ out = NoOut
    /\ \E tickers \in QueryTickers, start_date \in OptionalDates, end_date \in OptionalDates :
        out' = [op |-> "load_prices",
                args |-> <<tickers, start_date, end_date>>,
                value |-> load_prices(disk, damaged, tickers, start_date, end_date),
                had |-> Cardinality({p \in Partitions : disk[p].exists}),
                raised |-> FALSE]
    /\ UNCHANGED <<damaged, storeVars, mergeVars, writeVars, runVars, gapVars, concVars>>

\* the caller is done with the result
Forget ==
    /\ out # NoOut
    /\ out' = NoOut
    /\ UNCHANGED <<damaged, storeVars, mergeVars, writeVars, runVars, gapVars, concVars>>

NextRead ==
    \/ StoreRow
    \/ StoreUpdate
    \/ StoreCreate
    \/ ReadStartDate
    \/ ReadLastDates
    \/ LoadPrices
    \/ Forget

SpecRead == InitStore /\ [][NextRead]_vars

\* the readers on a store in which one file has been damaged
NextCorrupt ==
    \/ StoreRow
    \/ Damage
    \/ LoadExisting
    \/ ReadLastDates
    \/ LoadPrices
    \/ Forget

SpecCorrupt == InitStore /\ [][NextCorrupt]_vars

\* ------------------------------------------- split_into_contiguous_ranges
\* sorted(dates): ascending
RECURSIVE InsertDates(_, _, _)
InsertDates(dates, i, acc) ==
    IF i > Len(dates) THEN acc
    ELSE LET n == Cardinality({j \in 1..Len(acc) : acc[j] <= dates[i]})
         IN  InsertDates(dates, i + 1,
                         SubSeq(acc, 1, n) \o <<dates[i]>> \o SubSeq(acc, n + 1, Len(acc)))
sorted(dates) == InsertDates(dates, 1, <<>>)

\* the loop over dates[1:] (lines 241-245) and the last append (line 246)
RECURSIVE SplitLoop(_, _, _, _, _, _)
AtLeast_SplitLoop(dates, i, range_start, prev, max_gap, ranges) ==
    IF i > Len(dates) THEN Append(ranges, <<range_start, prev + 1>>)
    ELSE IF dates[i] - prev >= max_gap
    THEN SplitLoop(dates, i + 1, dates[i], dates[i], max_gap,
                   Append(ranges, <<range_start, prev + 1>>))
    ELSE SplitLoop(dates, i + 1, range_start, dates[i], max_gap, ranges)
SplitLoop(dates, i, range_start, prev, max_gap, ranges) ==
    IF i > Len(dates) THEN Append(ranges, <<range_start, prev + 1>>)
    ELSE IF dates[i] - prev > max_gap
    THEN SplitLoop(dates, i + 1, dates[i], dates[i], max_gap,
                   Append(ranges, <<range_start, prev + 1>>))
    ELSE SplitLoop(dates, i + 1, range_start, dates[i], max_gap, ranges)

\* split_into_contiguous_ranges(dates, max_gap_days)
split_into_contiguous_ranges(dates, max_gap) ==
    IF Len(dates) = 0 THEN <<>>
    ELSE LET s == sorted(dates)
         IN  SplitLoop(s, 2, s[1], s[1], max_gap, <<>>)

\* the lists of gap dates: any order, repeats allowed
GapLists == UNION {[1..n -> 0..MaxGapDay] : n \in 0..MaxGapDates}

InitGaps ==
    /\ disk = EmptyStore
    /\ reset = FALSE
    /\ stage = "empty"
    /\ incoming = EmptyFrame
    /\ before = EmptyStore
    /\ once = EmptyStore
    /\ wr = Idle
    /\ NoRun
    /\ NoRead
    /\ NoConc
    /\ gap_dates \in GapLists
    /\ max_gap_days \in (-1)..MaxGap
    /\ gap_ranges = <<>>

\* the call; the list returned is kept as the one element of gap_ranges
SplitIntoContiguousRanges ==
    /\ gap_ranges = <<>>
    /\ gap_ranges' = <<split_into_contiguous_ranges(gap_dates, max_gap_days)>>
    /\ UNCHANGED <<gap_dates, max_gap_days, storeVars, mergeVars, writeVars, runVars, readVars, concVars>>

NextGaps == SplitIntoContiguousRanges

SpecGaps == InitGaps /\ [][NextGaps]_vars

\* ------------------------------------------ two runs merging side by side
\* Two runs against the same root are each in the loop of
\* merge_ticker_data_into_monthly_files (lines 215-223) with one group of
\* one row. Nothing in the code takes a lock: the load and the save of a run
\* are two steps, and the steps of the other run can fall between them.
ConcFrames == {Frame("object", <<row>>) : row \in ReadRows}
\* the stores they start on: the empty one, and one that holds a row of
\* January with a key none of the frames has
ConcStores ==
    {EmptyStore,
     merge_ticker_data_into_monthly_files(
        EmptyStore, Frame("object", <<[date |-> JanFirst + 1, ticker |-> "X", val |-> 1]>>))}

\* add of the group (line 217), and the partition of its path (line 216)
AddOf(df) == Frame("object", normalize_dates(df).rows)
PathOf(add) == PartitionOf(add.rows[1].date)

\* combined (lines 218-222): existing is None when path did not exist
AddOnly_Combined(existing, add) == add
Combined(existing, add) ==
    IF existing # None THEN Concat(existing[1], add) ELSE add

InitConc ==
    /\ disk \in ConcStores
    /\ reset = FALSE
    /\ stage = "empty"
    /\ incoming = EmptyFrame
    /\ before = EmptyStore
    /\ once = EmptyStore
    /\ wr = Idle
    /\ NoRun
    /\ NoRead
    /\ NoGaps
    /\ \E dfA \in ConcFrames, dfB \in ConcFrames :
        /\ KeysOf(dfA.rows) # KeysOf(dfB.rows)
        /\ merging = [r \in Runs |->
                        [st |-> "start",
                         add |-> AddOf(IF r = "A" THEN dfA ELSE dfB),
                         existing |-> None]]
    /\ clog = <<>>

\* lines 218-219: path.exists() and load_existing(path)
MergeLoad(r) ==
    /\ merging[r].st = "start"
    /\ LET p == PathOf(merging[r].add)
       IN  merging' = [merging EXCEPT
                         ![r].st = "loaded",
                         ![r].existing = IF disk[p].exists
                                         THEN Some(load_existing(disk[p]))
                                         ELSE None]
    /\ clog' = Append(clog, <<r, "load">>)
    /\ UNCHANGED <<storeVars, mergeVars, writeVars, runVars, readVars, gapVars>>

\* lines 220-223: pd.concat and save_price_data(combined, path)
MergeSave(r) ==
    /\ merging[r].st = "loaded"
    /\ LET p == PathOf(merging[r].add)
       IN  disk' = [disk EXCEPT
                      ![p] = save_price_data(Combined(merging[r].existing, merging[r].add))]
    /\ merging' = [merging EXCEPT ![r].st = "saved"]
    /\ clog' = Append(clog, <<r, "save">>)
    /\ UNCHANGED <<reset, mergeVars, writeVars, runVars, readVars, gapVars>>

NextConc ==
    \/ \E r \in Runs : MergeLoad(r)
    \/ \E r \in Runs : MergeSave(r)

SpecConc == InitConc /\ [][NextConc]_vars

\* ------------------------------------------------------------------ claims
\* the (date, ticker) key of a stored CSV row, and the keys a file holds
StoredKey(c) == <<c.date \div TicksPerDay, c.ticker>>
StoredKeys(file) == {StoredKey(file.cells[i]) : i \in 1..Len(file.cells)}
StoredLess(a, b) ==
    \/ StoredKey(a)[1] < StoredKey(b)[1]
    \/ /\ StoredKey(a)[1] = StoredKey(b)[1]
       /\ TickerRank[a.ticker] < TickerRank[b.ticker]

\* C1: when a frame is merged and one of its rows has the key of a stored row
\* but another value, the partition afterwards holds exactly one row for that
\* key and it carries the incoming value (last write wins).
C1_LastWriteWins ==
    stage = "once" =>
        LET inc == normalize_dates(incoming).rows
        IN  \A i \in 1..Len(inc) :
              LET r == inc[i]
                  p == PartitionOf(r.date)
                  old == {j \in 1..Len(before[p].cells) :
                             StoredKey(before[p].cells[j]) = Key(r)}
                  new == {j \in 1..Len(disk[p].cells) :
                             StoredKey(disk[p].cells[j]) = Key(r)}
              IN  (/\ \A j \in 1..Len(inc) : Key(inc[j]) = Key(r) => inc[j].val = r.val
                   /\ \E j \in old : before[p].cells[j].val # r.val)
                  => /\ Cardinality(new) = 1
                     /\ \A j \in new : disk[p].cells[j].val = r.val

\* C2: merging a frame into the store a second time leaves every partition
\* exactly as the first merge left it.
C2_MergeIdempotent == stage = "twice" => disk = once

\* a frame with a repeated key was merged twice into a partition that held
\* rows before, and the first merge changed that partition
C2_Witness ==
    /\ stage = "twice"
    /\ \E i, j \in 1..Len(incoming.rows) :
          i < j /\ Key(incoming.rows[i]) = Key(incoming.rows[j])
    /\ \E p \in Partitions : before[p].exists /\ once[p] # before[p]

\* C3: every partition file is sorted strictly ascending by (date, ticker),
\* hence holds no key twice, whatever writes produced it.
C3_SortedUnique ==
    \A p \in Partitions :
        \A i \in 1..(Len(disk[p].cells) - 1) :
            StoredLess(disk[p].cells[i], disk[p].cells[i + 1])

\* a partition holding two tickers on each of two days
C3_Witness ==
    \E p \in Partitions :
        /\ Len(disk[p].cells) = 4
        /\ Cardinality({disk[p].cells[i].ticker : i \in 1..4}) = 2

\* C4: no operation other than the forced full reset removes a key from a
\* partition.
C4_KeysNeverLost ==
    [][~reset' => \A p \in Partitions : StoredKeys(disk[p]) \subseteq StoredKeys(disk'[p])]_vars

\* C5: while a partition is being written, and after a write failed, its file
\* holds either the content it had before or the complete new content.
C5_AtomicWrite ==
    /\ wr.st = "failed" => disk[wr.p] = wr.prior
    /\ wr.st = "writing" => disk[wr.p] \in {wr.prior, File(wr.full)}

\* the number of batches the two loops of fetch_and_store go through
RECURSIVE BatchCount(_, _, _)
BatchCount(groups, batch_size, g) ==
    IF g > Len(groups) THEN 0
    ELSE (Len(groups[g].tickers) + batch_size - 1) \div batch_size
         + BatchCount(groups, batch_size, g + 1)

\* the days of January but the first, for ticker X
ExampleKeys == {<<d, "X">> : d \in (JanFirst + 1)..(FebFirst - 1)}

\* C6: every stored row lies in the partition of the (year, month) of its own
\* date, and every row a run handed to the store is in the partition of its
\* date; when X is fetched for January and the provider has bars only for the
\* days after the first, exactly those rows are in the January partition,
\* none in February, and stored = {X: number of those rows}.
C6_RoutedByDate ==
    /\ \A p \in Partitions :
          \A i \in 1..Len(disk[p].cells) :
              PartitionOf(StoredKey(disk[p].cells[i])[1]) = p
    /\ \A key \in handed : key \in StoredKeys(disk[PartitionOf(key[1])])
    /\ (/\ pc = "done"
        /\ cfg.ticker_ranges = <<[ticker |-> "X", ranges |-> One(January)]>>
        /\ handed = ExampleKeys)
       => /\ StoredKeys(disk[<<1, 1>>]) = ExampleKeys
          /\ ~disk[<<1, 2>>].exists
          /\ result.stored = [t \in {"X"} |-> Cardinality(ExampleKeys)]
          /\ result.failed = {}

\* the run of the example has returned
C6_Witness ==
    /\ pc = "done"
    /\ cfg.ticker_ranges = <<[ticker |-> "X", ranges |-> One(January)]>>
    /\ handed = ExampleKeys
    /\ Len(disk[<<1, 1>>].cells) = Cardinality(ExampleKeys)
    /\ result.stored["X"] = Cardinality(ExampleKeys)

\* C7: when fetch_and_store has returned, stored and failed are disjoint and
\* together hold exactly the input tickers; a ticker is in stored exactly when
\* the run handed at least one of its rows to the store, with the number of
\* rows handed over all its ranges and batches as its count.
C7_Tally ==
    pc = "done" =>
        /\ DOMAIN result.stored \cap result.failed = {}
        /\ DOMAIN result.stored \cup result.failed = AllTickers
        /\ \A t \in AllTickers :
              /\ t \in DOMAIN result.stored <=> written[t] > 0
              /\ t \in DOMAIN result.stored => result.stored[t] = written[t]

\* one batch of three tickers, the provider had data for two of them
C7_Witness ==
    /\ pc = "done"
    /\ nb = 1
    /\ Len(cfg.ticker_ranges) = 3
    /\ DOMAIN result.stored = {"X", "Y"}
    /\ result.failed = {"Z"}

\* C8: no provider failure ends the run with an exception; a batch counts as
\* empty only after max_retries attempts; the run goes through every batch
\* and returns, and a ticker the provider never answered for is in failed and
\* not in stored.
C8_FailuresAbsorbed ==
    /\ pc # "raised"
    /\ (pc = "process" /\ IsEmpty(batch_df)) => attempt = cfg.max_retries
    /\ pc = "done" =>
          /\ nb = BatchCount(RangeGroups(cfg.ticker_ranges), cfg.batch_size, 1)
          /\ \A t \in AllTickers \ served :
                t \in result.failed /\ t \notin DOMAIN result.stored

\* the batches of X failed, the run went on and stored rows of Y
C8_Witness ==
    /\ pc = "done"
    /\ "X" \notin served
    /\ "X" \in result.failed
    /\ "Y" \in DOMAIN result.stored

\* C9: after one or more failed batches in a row the adaptive delay is at
\* most the cap.
C9_DelayCapped == failStreak >= 1 => QLeq(delay, Q(DelayCap, 1))

\* two failed batches in a row, from a base delay below the cap, and the
\* doubling was cut at the cap
C9_Witness ==
    /\ failStreak >= 2
    /\ delay = Q(DelayCap, 1)
    /\ QLeq(cfg.base_delay, Q(DelayCap, 1))
    /\ cfg.base_delay # Q(DelayCap, 1)

\* C10: during and after a second run with the same arguments and the same
\* provider answers, every partition holds what the first run left in it.
C10_RerunSafe == mode = "second" => disk = snap

\* the second run has returned after handing rows to the store in two batches
C10_Witness ==
    /\ mode = "second"
    /\ pc = "done"
    /\ nb >= 2
    /\ \E t \in AllTickers : written[t] >= 2
    /\ \E p \in Partitions : Len(snap[p].cells) >= 2

\* the greatest (year, month) among the partition files that exist
LatestPartition ==
    CHOOSE p \in {q \in Partitions : disk[q].exists} :
        \A q \in Partitions : disk[q].exists => ~PartLess(p, q)

\* C11: determine_start_date without force returns (first day of M, M) for
\* the greatest (year, month) M that has a partition file, and
\* (start_date, None) when no partition file exists.
C11_ResumeFromLatest ==
    (out.op = "determine_start_date" /\ ~out.args[2]) =>
        IF \E p \in Partitions : disk[p].exists
        THEN /\ out.value[1] = month_range(LatestPartition[1], LatestPartition[2])[1]
             /\ out.value[2] = <<out.value[1]>>
             /\ PartitionOf(out.value[1]) = LatestPartition
        ELSE out.value = <<out.args[1], <<>>>>

\* partitions of December and of February after it exist, the configured
\* start is long before: the run resumes from the first day of February
C11_Witness ==
    /\ out.op = "determine_start_date"
    /\ out.args = <<0, FALSE>>
    /\ disk[<<0, MonthsPerYear>>].exists
    /\ disk[<<1, 2>>].exists
    /\ out.value = <<FebFirst, <<FebFirst>>>>

\* C12: determine_start_date with force_redownload leaves no partition file
\* and returns (start_date, None).
C12_ForcedReset ==
    (out.op = "determine_start_date" /\ out.args[2]) =>
        /\ \A p \in Partitions : ~disk[p].exists
        /\ out.value = <<out.args[1], <<>>>>

\* three partition files existed before the forced call
C12_Witness ==
    /\ out.op = "determine_start_date"
    /\ out.args[2]
    /\ out.had = Cardinality(Partitions)
    /\ \A p \in Partitions : ~disk[p].exists

\* C13: a step in which a partition file ceases to exist is a call of
\* determine_start_date with force_redownload.
C13_DeletedOnlyOnReset ==
    [][(\E p \in Partitions : disk[p].exists /\ ~disk'[p].exists)
        => (reset' /\ out'.op = "determine_start_date" /\ out'.args[2])]_vars

\* files exist after a call of determine_start_date without the flag
C13_Witness ==
    /\ out.op = "determine_start_date"
    /\ ~out.args[2]
    /\ out.had = Cardinality(Partitions)
    /\ \A p \in Partitions : disk[p].exists

\* the gap dates as a set, and the ranges a date lies in
GapSet == {gap_dates[i] : i \in 1..Len(gap_dates)}
RangesOf(d) == {i \in 1..Len(gap_ranges[1]) : gap_ranges[1][i][1] <= d /\ d < gap_ranges[1][i][2]}

\* what the call returned: half-open ranges in ascending order that do not
\* overlap; every gap date lies in exactly one of them; a range starts at a
\* gap date and ends the day after a gap date; two gap dates next to each
\* other in sorted order are in different ranges exactly when they are more
\* than max_gap_days apart; no dates, no ranges
GapsCoalesced ==
        LET rs == gap_ranges[1]
        IN  /\ Len(gap_dates) = 0 => rs = <<>>
            /\ \A i \in 1..Len(rs) :
                  /\ rs[i][1] < rs[i][2]
                  /\ rs[i][1] \in GapSet
                  /\ (rs[i][2] - 1) \in GapSet
            /\ \A i \in 1..(Len(rs) - 1) : rs[i][2] <= rs[i + 1][1]
            /\ \A d \in GapSet : Cardinality(RangesOf(d)) = 1
            /\ \A a \in GapSet : \A b \in GapSet :
                  (a < b /\ ~\E c \in GapSet : a < c /\ c < b)
                  => ((b - a > max_gap_days) <=> (RangesOf(a) # RangesOf(b)))

\* C14 as stated: for any list of gap dates and any max_gap_days the ranges
\* returned are ordered and disjoint and cover every gap date exactly once.
C14_AnyMaxGap == gap_ranges # <<>> => GapsCoalesced

\* C14, amended: for any list of gap dates and any max_gap_days that is not
\* negative, the ranges returned are ordered and disjoint, cover every gap
\* date exactly once, start at a gap date, end the day after a gap date, and
\* break exactly where two neighbouring gap dates are more than
\* max_gap_days apart.
C14_GapCoalescing == (gap_ranges # <<>> /\ max_gap_days >= 0) => GapsCoalesced

\* two days next to each other and a third far from them, given out of
\* order: two ranges
C14_Witness ==
    /\ gap_dates = <<MaxGapDay, 0, 1>>
    /\ max_gap_days = MaxGap
    /\ gap_ranges = << << <<0, 2>>, <<MaxGapDay, MaxGapDay + 1>> >> >>

PartitionsRead ==
    IF out.op = "load_existing" THEN {out.args[1]}
    ELSE IF out.op = "get_last_dates_per_ticker"
    THEN {p \in Partitions : disk[p].exists}
    ELSE IF out.op = "load_prices"
    THEN IF out.args[2] = None /\ out.args[3] = None
         THEN {p \in Partitions : disk[p].exists}
         ELSE LET months == months_in_range(
                                IF out.args[2] # None THEN out.args[2][1] ELSE LoDefault,
                                IF out.args[3] # None THEN out.args[3][1] ELSE HiDefault)
              IN  {p \in Partitions : disk[p].exists /\ p \in SeqSet(months)}
    ELSE {}

\* C16: a call that reads a partition file that does not parse ends with an
\* error.
C16_CorruptNeverSkipped ==
    (PartitionsRead \cap damaged # {}) => out.raised

\* C17: get_last_dates_per_ticker returns one entry per requested ticker:
\* the latest date over the rows of the ticker in all partitions, None for
\* a ticker without a row.
C17_LastDatePerTicker ==
    out.op = "get_last_dates_per_ticker" =>
        /\ DOMAIN out.value = SeqSet(out.args[1])
        /\ \A t \in SeqSet(out.args[1]) :
              LET ds == UNION {{disk[p].cells[i].date \div TicksPerDay :
                                  i \in {j \in 1..Len(disk[p].cells) :
                                            disk[p].cells[j].ticker = t}} :
                               p \in Partitions}
              IN  IF ds = {} THEN out.value[t] = None
                  ELSE /\ out.value[t] # None
                       /\ out.value[t][1] \in ds
                       /\ \A d \in ds : d <= out.value[t][1]

\* X has rows in December and February, Y only in December, Z none
C17_Witness ==
    /\ out.op = "get_last_dates_per_ticker"
    /\ out.args = << <<"X", "Y", "Z">> >>
    /\ out.value["X"] = Some(FebFirst)
    /\ out.value["Y"] = Some(JanFirst - 1)
    /\ out.value["Z"] = None
    /\ \E i \in 1..Len(disk[<<0, MonthsPerYear>>].cells) :
          disk[<<0, MonthsPerYear>>].cells[i].ticker = "X"

\* C18: for each batch the provider is called at most max_retries times,
\* there is one sleep after every failed attempt but the last, the first
\* sleep is the current adaptive delay, each next one is twice the one
\* before cut at the cap, and no sleep is longer than the 10-second cap.
C18_RetryProtocol ==
    pc \in {"fetch", "process"} =>
        /\ attempt <= cfg.max_retries
        /\ Len(sleeps) = attempt - 1
        /\ Len(sleeps) >= 1 => sleeps[1] = delay
        /\ \A i \in 1..(Len(sleeps) - 1) : sleeps[i + 1] = NextBackoff(sleeps[i])
        /\ \A i \in 1..Len(sleeps) : QLeq(sleeps[i], Q(BackoffCap, 1))

\* how often the pair (ticker, range) occurs in the batches sent, and in the
\* input
TimesSent(t, r) ==
    Cardinality({<<i, j>> \in (1..Len(sent)) \X (1..Cardinality(RunTickers)) :
                    /\ j <= Len(sent[i].tickers)
                    /\ sent[i].tickers[j] = t
                    /\ sent[i].range = r})
TimesAsked(t, r) ==
    LET ps == Pairs(cfg.ticker_ranges, 1)
    IN  Cardinality({i \in 1..Len(ps) : ps[i] = <<t, r>>})

\* C19: every batch sent holds between one and batch_size tickers, each of
\* which asked for the range of the batch; when the run has ended every
\* (ticker, range) pair of the input has been sent exactly once.
C19_Batching ==
    /\ \A i \in 1..Len(sent) :
          /\ Len(sent[i].tickers) \in 1..cfg.batch_size
          /\ \A j \in 1..Len(sent[i].tickers) :
                TimesAsked(sent[i].tickers[j], sent[i].range) >= 1
    /\ \A t \in RunTickers, r \in {January, Straddle} :
          /\ TimesSent(t, r) <= TimesAsked(t, r)
          /\ pc = "done" => TimesSent(t, r) = TimesAsked(t, r)

\* three tickers with the same window and batch_size 2: two batches, and
\* two windows for X and one for Y: one batch per window
C19_Witness ==
    /\ pc = "done"
    /\ \/ /\ cfg.batch_size = 2
          /\ sent = <<[tickers |-> <<"X", "Y">>, range |-> Straddle],
                      [tickers |-> <<"Z">>, range |-> Straddle]>>
       \/ /\ cfg.batch_size = 1
          /\ sent = <<[tickers |-> <<"X">>, range |-> Straddle],
                      [tickers |-> <<"X">>, range |-> January],
                      [tickers |-> <<"Y">>, range |-> January]>>

\* the keys of a store
KeysInStore(store) == UNION {StoredKeys(store[p]) : p \in Partitions}
\* the rows of ticker t in the frame fetched for the batch whose date is in
\* the keep-set of t
KeptRows(t) ==
    SelectSeq(normalize_dates(batch_df).rows,
              LAMBDA r : r.ticker = t /\ r.date \in cfg.filter_dates[t])

\* C20: in the step that stores a fetched batch, for every ticker with a
\* keep-set: the keys the step adds to the store for the ticker have a date
\* of the keep-set, the stored count of the ticker grows by the number of
\* its fetched rows inside the keep-set, and when there is no such row the
\* store gets no key of the ticker and the count stays, without an error.
C20_KeepSetFiltering ==
    [][pc = "process" =>
        \A t \in DOMAIN cfg.filter_dates :
            /\ \A key \in KeysInStore(disk') \ KeysInStore(disk) :
                  key[2] = t => key[1] \in cfg.filter_dates[t]
            /\ ticker_rows'[t] - ticker_rows[t]
               = IF t \in SeqSet(CurBatch) THEN Len(KeptRows(t)) ELSE 0
            /\ pc' # "raised"]_vars

\* the run has ended without an error; X has the keep-set of the first day
\* of January, rows of X were fetched, all outside the keep-set: no key of X
\* is in the store and X is reported failed, while Y's rows are stored
C20_Witness ==
    /\ pc = "done"
    /\ cfg.filter_dates = [t \in {"X"} |-> {JanFirst}]
    /\ fetched["X"] > 0
    /\ written["X"] = 0
    /\ \A key \in KeysInStore(disk) : key[2] # "X"
    /\ "X" \in result.failed
    /\ "Y" \in DOMAIN result.stored

\* C22: at every point of a run the adaptive delay is at least base_delay.
C22_DelayAtLeastBase ==
    pc \in {"fetch", "process", "tally", "done"} => QLeq(cfg.base_delay, delay)

\* C23: no fetch_prices call of a run comes straight after another one: the
\* run has slept since the call before.
C23_EveryCallPaced ==
    [][(pc = "fetch" /\ calls' = calls + 1) => last_event # "call"]_vars

\* C24: as long as no call of the run has returned a row, no step of the
\* run changes the store, and when such a run returns, every ticker of the
\* input is in failed and stored is empty.
C24_EmptyRunChangesNothing ==
    [][(pc \in {"fetch", "process", "tally"} /\ served' = {}) =>
          /\ disk' = disk
          /\ pc' = "done" =>
                /\ result'.failed = AllTickers
                /\ DOMAIN result'.stored = {}]_vars

\* a run over three tickers on a store that holds a file made three calls
\* or more, none returned a row, and it has returned
C24_Witness ==
    /\ pc = "done"
    /\ served = {}
    /\ calls >= 3
    /\ Cardinality(AllTickers) = 3
    /\ result.failed = AllTickers
    /\ disk # EmptyStore

\* the batches of the run: those of every range group
NumBatches == BatchCount(RangeGroups(cfg.ticker_ranges), cfg.batch_size, 1)

\* C25: a run never makes more than (number of batches) x max_retries
\* fetch_prices calls, and it returns in the end.
C25_TerminatesBounded ==
    /\ [](pc \in {"fetch", "process", "tally", "done"}
            => calls <= NumBatches * cfg.max_retries)
    /\ <>(pc = "done")

\* a run of two batches with max_retries 2 has returned after four calls
C25_Witness ==
    /\ pc = "done"
    /\ NumBatches = 2
    /\ cfg.max_retries = 2
    /\ calls = 4

\* the row a run merged is not in the partition of its date
Lost(r) ==
    ~(KeysOf(merging[r].add.rows) \subseteq StoredKeys(disk[PathOf(merging[r].add)]))
\* the position in clog of a step of a run
At(r, step) == CHOOSE i \in 1..Len(clog) : clog[i] = <<r, step>>
\* both runs loaded the partition before either saved it
Interleaved == \A r \in Runs, q \in Runs : At(r, "load") < At(q, "save")

\* C21: when two runs have merged rows of different keys with no lock, a
\* row one of them merged is missing from its partition exactly when both
\* rows belong to the same partition and both runs loaded it before either
\* saved; the row then missing is the one of the run that saved first.
C21_LostUpdate ==
    (\A r \in Runs : merging[r].st = "saved") =>
        /\ (\E r \in Runs : Lost(r))
           <=> /\ PathOf(merging["A"].add) = PathOf(merging["B"].add)
               /\ Interleaved
        /\ \A r \in Runs : Lost(r) => \E q \in Runs : At(r, "save") < At(q, "save")

\* both merges have returned without an error, both rows belong to January,
\* and the file of January holds the row of B and not the row of A
C21_Witness ==
    /\ \A r \in Runs : merging[r].st = "saved"
    /\ PathOf(merging["A"].add) = <<1, 1>>
    /\ PathOf(merging["B"].add) = <<1, 1>>
    /\ Lost("A")
    /\ ~Lost("B")
    /\ disk[<<1, 1>>].exists

====
